---- MODULE Spec2Model ----
(***************************************************************************)
(* Model of pynbp (src/pynbp/__init__.py): the Numeric Broadcast Protocol  *)
(* packet encoder (BasePyNBP._genpacket / metadata), the KPI state kept by *)
(* a broadcaster (kpis, updatelist, packettime, last_update_time) and the  *)
(* two broadcaster loops, PyNBP.run (serial) and WifiPyNBP.run (socket).   *)
(*                                                                         *)
(* Units.  The wall clock (time.time()) and last_update_time are counted   *)
(* in ticks of 50 ms, so min_update_interval = 0.2 s is 4 ticks.  Payload  *)
(* timestamps are counted in milliseconds.  A KPI value is counted in      *)
(* tenths: a multiple of 10 stands for the Python int v/10, any other v    *)
(* for the Python float v/10 (one decimal digit).                          *)
(*                                                                         *)
(* Text.  A packet is a TLA+ string, built by the same concatenations as   *)
(* the source builds it.                                                   *)
(***************************************************************************)
EXTENDS Integers, Sequences, FiniteSets, TLC

VARIABLES
    transport,         \* "serial" (class PyNBP) or "socket" (class WifiPyNBP)
    pc,                \* position of the run() thread in its loop
    nbppayload,        \* the payload dequeued by this iteration (timestamp, packettype)
    kpis,              \* self.kpis: dict name -> NbpKPI, as its items in insertion order
    updatelist,        \* self.updatelist
    packettime,        \* self.packettime
    last_update_time,  \* self.last_update_time
    connected,         \* local variable connected of run()
    serport,           \* local serport of PyNBP.run: "None", "open" or "closed"
    conn,              \* local conn of WifiPyNBP.run: "unbound", "open" or "closed"
    now,               \* what time.time() returns
    outcome,           \* observer: what this iteration has come to so far
    written,           \* observer: the packets this iteration put on the transport
    lastOcc,           \* observer: per name, the last KPI of that name in any payload
    firstEver,         \* observer: per name, rank of its first occurrence ever (0: none)
    firstSince,        \* observer: per name, rank of its first occurrence since the
                       \*           last clearing of updatelist (0: none)
    lastWriteAt,       \* observer: clock at the end of the last successful rate-gated
                       \*           write (-1: none)
    attempts,          \* observer: the latest gate checks, as far as they follow the
                       \*           schedule the run watches
    calls,             \* observer: the transport calls this iteration made before its
                       \*           gate check, with their results
    owed,              \* observer: the names applied and not yet in an ALL or UPDATE
                       \*           packet written by the rate-gated path
    unsent             \* observer: packettype of the latest payload whose iteration
                       \*           wrote no rate-gated packet ("None": none since the
                       \*           last such packet)

vars == <<transport, pc, nbppayload, kpis, updatelist, packettime, last_update_time,
          connected, serport, conn, now, outcome, written, lastOcc, firstEver,
          firstSince, lastWriteAt, attempts, calls, owed, unsent>>

program == <<kpis, updatelist, packettime, last_update_time, connected, serport, conn>>

(***************************************************************************)
(* Bounds of the model.                                                    *)
(***************************************************************************)
\* longest nbpkpilist of a payload
MaxLen == 3
\* last clock tick of Spec
MaxTime == 8
\* last clock tick of SpecRate
MaxTimeRate == 9
\* last clock tick of SpecIO
MaxTimeIO == 8
\* longest time, in ticks, a successful write takes
MaxWriteTicks == 1

(***************************************************************************)
(* Program constants.                                                      *)
(***************************************************************************)
\* min_update_interval = 0.2 (seconds) in clock ticks of 50 ms
MinUpdateInterval == 4
device_name == "PyNBP"
protocol_version == "NBP1"

(***************************************************************************)
(* Inputs.                                                                 *)
(***************************************************************************)
NbpKPI(name, unit, value) == [name |-> name, unit |-> unit, value |-> value]

KpiNames == {"RPM", "AFR"}

KpiUniverse ==
    { NbpKPI("RPM", "rpm", 45000), NbpKPI("RPM", "rpm", 46000), NbpKPI("AFR", "", 147) }

Timestamps == {1500, 2025}

PacketTypes == {"ALL", "UPDATE", "METADATA", "BOGUS"}

KpiLists == UNION { [1..n -> KpiUniverse] : n \in 0..MaxLen }

NoPayload == [timestamp |-> 0, packettype |-> "None"]

NoKpi == NbpKPI("", "", 0)

(***************************************************************************)
(* self.kpis is a Python dict: an insertion-ordered table keyed by name.   *)
(***************************************************************************)
HasKey(d, name) == \E i \in 1..Len(d) : d[i].name = name

\* self.kpis[k], for a key of the table; a missing key raises KeyError (see
\* RaisesKeyError), and the value given here is then not used
DictGet(d, name) ==
    IF HasKey(d, name) THEN d[CHOOSE i \in 1..Len(d) : d[i].name = name] ELSE NoKpi

\* mutant: dict.setdefault, the first KPI of a name is kept
DictSetDefault(d, kpi) == IF HasKey(d, kpi.name) THEN d ELSE Append(d, kpi)

\* mutant: the table is rebound to the new KPI alone
DictSetOnly(d, kpi) == <<kpi>>

\* self.kpis[kpi.name] = kpi: overwrite in place, or insert at the end
DictSet(d, kpi) ==
    IF HasKey(d, kpi.name)
    THEN [i \in 1..Len(d) |-> IF d[i].name = kpi.name THEN kpi ELSE d[i]]
    ELSE Append(d, kpi)

DictKeys(d) == { d[i].name : i \in 1..Len(d) }

\* mutant: the name is appended without the membership test
UpdatelistAppend(upd, name) == Append(upd, name)

\* if kpi.name not in self.updatelist: self.updatelist.append(kpi.name)
UpdatelistAdd(upd, name) ==
    IF \E i \in 1..Len(upd) : upd[i] = name THEN upd ELSE Append(upd, name)

\* the for loop over nbppayload.nbpkpilist, as it leaves self.updatelist
RECURSIVE ApplyUpdatelist(_, _)
ApplyUpdatelist(upd, list) ==
    IF list = <<>> THEN upd
    ELSE ApplyUpdatelist(UpdatelistAdd(upd, Head(list).name), Tail(list))

\* mutant: the assignment is placed after the for loop
ApplyKpisLastOnly(tab, list) ==
    IF list = <<>> THEN tab ELSE DictSet(tab, list[Len(list)])

\* the for loop over nbppayload.nbpkpilist, as it leaves self.kpis
RECURSIVE ApplyKpis(_, _)
ApplyKpis(tab, list) ==
    IF list = <<>> THEN tab
    ELSE ApplyKpis(DictSet(tab, Head(list)), Tail(list))

(***************************************************************************)
(* Text formatting.                                                        *)
(***************************************************************************)
\* "{}".format(kpi.value): str() of an int, or of a float with one decimal
StrValue(v) ==
    IF v % 10 = 0 THEN ToString(v \div 10)
    ELSE ToString(v \div 10) \o "." \o ToString(v % 10)

Pad3(n) ==
    IF n < 10 THEN "00" \o ToString(n)
    ELSE IF n < 100 THEN "0" \o ToString(n)
    ELSE ToString(n)

\* "{:.6f}".format(self.packettime), packettime in milliseconds
Format6f(ms) == ToString(ms \div 1000) \o "." \o Pad3(ms % 1000) \o "000"

(***************************************************************************)
(* BasePyNBP.metadata and BasePyNBP._genpacket.  self is the object: its   *)
(* fields device_name, protocol_version, packettime, kpis and updatelist.  *)
(***************************************************************************)
Self ==
    [device_name |-> device_name, protocol_version |-> protocol_version,
     packettime |-> packettime, kpis |-> kpis, updatelist |-> updatelist]

\* mutant: one newline instead of two
metadataOneNewline(self) == "@NAME:" \o self.device_name \o "\n"

metadata(self) == "@NAME:" \o self.device_name \o "\n\n"

\* line 60: any other ptype raises ValueError
ValidPtype(ptype) == ptype \in {"ALL", "UPDATE", "METADATA"}

Header(self, ptype) ==
    "*" \o self.protocol_version \o "," \o ptype \o "," \o Format6f(self.packettime) \o "\n"

KpiLine(kpi) ==
    IF kpi.unit # ""
    THEN "\"" \o kpi.name \o "\",\"" \o kpi.unit \o "\":" \o StrValue(kpi.value) \o "\n"
    ELSE "\"" \o kpi.name \o "\":" \o StrValue(kpi.value) \o "\n"

\* mutant: the pending KPIs are taken in table order
SelectKpisTableOrder(self, ptype) ==
    IF self.updatelist # <<>> /\ ptype # "ALL"
    THEN SelectSeq(self.kpis, LAMBDA k : \E i \in 1..Len(self.updatelist) :
                                            self.updatelist[i] = k.name)
    ELSE self.kpis

\* mutant: no fallback to the whole table when nothing is pending
SelectKpisNoFallback(self, ptype) ==
    IF ptype # "ALL"
    THEN [i \in 1..Len(self.updatelist) |-> DictGet(self.kpis, self.updatelist[i])]
    ELSE self.kpis

\* mutant: the test ptype != "ALL" is missing
SelectKpisAnyPtype(self, ptype) ==
    IF self.updatelist # <<>>
    THEN [i \in 1..Len(self.updatelist) |-> DictGet(self.kpis, self.updatelist[i])]
    ELSE self.kpis

\* lines 68-71
SelectKpis(self, ptype) ==
    IF self.updatelist # <<>> /\ ptype # "ALL"
    THEN [i \in 1..Len(self.updatelist) |-> DictGet(self.kpis, self.updatelist[i])]
    ELSE self.kpis

\* line 69: self.kpis[k] for a k that is no key of self.kpis
RaisesKeyError(self, ptype) ==
    /\ ptype # "METADATA"
    /\ self.updatelist # <<>>
    /\ ptype # "ALL"
    /\ \E i \in 1..Len(self.updatelist) : ~HasKey(self.kpis, self.updatelist[i])

\* lines 73-78: for kpi in kpis: packet += ...
RECURSIVE AppendLines(_, _)
AppendLines(packet, ks) ==
    IF ks = <<>> THEN packet
    ELSE AppendLines(packet \o KpiLine(Head(ks)), Tail(ks))

Footer == "#\n\n"

\* the bytes returned, when neither line 61 (ValueError) nor line 69 (KeyError)
\* raises
_genpacket(self, ptype) ==
    IF ptype = "METADATA" THEN metadata(self)
    ELSE AppendLines(Header(self, ptype), SelectKpis(self, ptype)) \o Footer

(***************************************************************************)
(* Observers of the payload stream.  They are computed from the positions  *)
(* of the KPIs in the payloads, not by the program's loop.                 *)
(***************************************************************************)
Occurs(list, name) == \E i \in 1..Len(list) : list[i].name = name

FirstIndex(list, name) ==
    CHOOSE i \in 1..Len(list) :
        /\ list[i].name = name
        /\ \A j \in 1..(i - 1) : list[j].name # name

LastIndex(list, name) ==
    CHOOSE i \in 1..Len(list) :
        /\ list[i].name = name
        /\ \A j \in (i + 1)..Len(list) : list[j].name # name

ObserveLast(last, list) ==
    [n \in KpiNames |-> IF Occurs(list, n) THEN list[LastIndex(list, n)] ELSE last[n]]

\* ranks 1, 2, ... in order of first occurrence; the names already ranked keep theirs
ObserveFirst(rank, list) ==
    [n \in KpiNames |->
        IF rank[n] # 0 THEN rank[n]
        ELSE IF ~Occurs(list, n) THEN 0
        ELSE Cardinality({m \in KpiNames : rank[m] # 0})
             + Cardinality({m \in KpiNames :
                               /\ rank[m] = 0
                               /\ Occurs(list, m)
                               /\ FirstIndex(list, m) <= FirstIndex(list, n)})]

NoRank == [n \in KpiNames |-> 0]

\* the names a rank function ranks, in rank order
Ranked(rank) ==
    [i \in 1..Cardinality({n \in KpiNames : rank[n] # 0}) |->
        CHOOSE n \in KpiNames : rank[n] = i]


\* gate checks at t, t + 0.05 s and t + 0.25 s, as offsets in ticks
Schedule == <<0, 1, 5>>

\* A gate check made at tick at has ended with res ("skipped", "sent", or "failed"
\* when the gate let it pass and no write succeeded), the emission recorded at rec.
\* attempts holds the checks that follow the schedule a run watches, the first of
\* them a write that was recorded in the tick of its gate check.
Observe(schedule, log, at, res, rec) ==
    IF /\ log # <<>>
       /\ Len(log) < Len(schedule)
       /\ at = log[1].at + schedule[Len(log) + 1]
    THEN Append(log, [at |-> at, res |-> res])
    ELSE IF schedule # <<>> /\ res = "sent" /\ rec = at
    THEN << [at |-> at, res |-> res] >>
    ELSE <<>>

\* conn.recv was not called
NoRecv == [exc |-> "uncalled", data |-> <<>>]

\* connect: the result of serial_for_url / sock.accept; recv: of conn.recv; reply: of
\* the sendall that answers "!ALL"; "none" and NoRecv where the call was not made
NoCalls == [connect |-> "none", recv |-> NoRecv, reply |-> "none"]

\* the names with a line in the packet _genpacket makes of ptype
LineNames(ptype) ==
    IF ptype \in {"ALL", "UPDATE"}
    THEN IF ptype = "UPDATE" /\ updatelist # <<>>
         THEN { updatelist[i] : i \in 1..Len(updatelist) }
         ELSE { kpis[i].name : i \in 1..Len(kpis) }
    ELSE {}

(***************************************************************************)
(* Initial state: BasePyNBP.__init__ and the first lines of run().         *)
(* time.time() is seconds since 1970: the first gate check finds more than *)
(* min_update_interval elapsed since last_update_time = 0.                 *)
(***************************************************************************)
Init ==
    /\ transport \in {"serial", "socket"}
    /\ pc = "get"
    /\ nbppayload = NoPayload
    /\ kpis = <<>>
    /\ updatelist = <<>>
    /\ packettime = 0
    /\ last_update_time = 0
    /\ connected = FALSE
    /\ serport = "None"
    /\ conn = "unbound"
    /\ now = MinUpdateInterval
    /\ outcome = "idle"
    /\ written = <<>>
    /\ lastOcc = [n \in KpiNames |-> NoKpi]
    /\ firstEver = NoRank
    /\ firstSince = NoRank
    /\ lastWriteAt = -1
    /\ attempts = <<>>
    /\ calls = NoCalls
    /\ owed = {}
    /\ unsent = "None"

\* time passes while the thread waits in queue.get(); the time a write takes is
\* part of the iteration (Commit)
Tick(run) ==
    /\ pc = "get"
    /\ now < run.horizon
    /\ now' = now + 1
    /\ UNCHANGED <<transport, pc, nbppayload, program, outcome, written, lastOcc,
                   firstEver, firstSince, lastWriteAt, attempts, calls, owed, unsent>>

(***************************************************************************)
(* Lines 104-111 and 168-175: queue.get(), packettime, the for loop.       *)
(***************************************************************************)
\* mutant: the timestamp of the first payload is kept
SetPackettimeOnce(old, ts) == IF old = 0 THEN ts ELSE old

\* self.packettime = nbppayload.timestamp
SetPackettime(old, ts) == ts

Dequeue(run) ==
    /\ pc = "get"
    /\ \E ts \in Timestamps, pt \in PacketTypes, list \in run.lists :
        /\ nbppayload' = [timestamp |-> ts, packettype |-> pt]
        /\ packettime' = SetPackettime(packettime, ts)
        /\ updatelist' = ApplyUpdatelist(updatelist, list)
        /\ kpis' = ApplyKpis(kpis, list)
        /\ lastOcc' = ObserveLast(lastOcc, list)
        /\ firstEver' = ObserveFirst(firstEver, list)
        /\ firstSince' = ObserveFirst(firstSince, list)
        /\ owed' = IF run.watch THEN owed \union { n \in KpiNames : Occurs(list, n) }
                   ELSE owed
    /\ pc' = "body"
    /\ outcome' = "applied"
    /\ UNCHANGED <<transport, last_update_time, connected, serport, conn, now, written,
                   lastWriteAt, attempts, calls, unsent>>

(***************************************************************************)
(* The rest of an iteration, lines 113-141 and 177-217, is computed as a   *)
(* record:                                                                 *)
(*   connected, port  the locals connected and serport / conn afterwards   *)
(*   replies          packets sent in answer to "!ALL" (socket)            *)
(*   gate             "none" (not reached), "skipped" or "passed"          *)
(*   sent             the write of line 134 / 210 returned                 *)
(*   cleared          self.updatelist = [] (line 135 / 211) was executed   *)
(*   raised           an exception left run(): the thread ends             *)
(*   outcome          what the iteration came to                           *)
(*   calls            the transport calls made before the gate check       *)
(***************************************************************************)
\* mutant: the comparison is turned around
GateClosedInverted(t) == t - last_update_time > MinUpdateInterval

\* time.time() - self.last_update_time < self.min_update_interval
GateClosed(t) == t - last_update_time < MinUpdateInterval

\* mutant: the kind of a payload that was not sent is kept for the next packet
WrittenKeptKind(path, ptype) ==
    [path |-> path, ptype |-> ptype,
     packet |-> _genpacket(Self, IF path = "gated" /\ unsent \in {"ALL", "METADATA"}
                                 THEN unsent ELSE ptype),
     pending |-> updatelist]

\* a packet put on the transport: which send, the ptype asked for, the bytes, and
\* updatelist as it was when the packet was encoded
Written(path, ptype) ==
    [path |-> path, ptype |-> ptype, packet |-> _genpacket(Self, ptype),
     pending |-> updatelist]

Proceeding(c, port) ==
    [connected |-> c, port |-> port, replies |-> <<>>, gate |-> "none", sent |-> FALSE,
     cleared |-> FALSE, raised |-> FALSE, outcome |-> "applied", calls |-> NoCalls]

\* lines 134-136 / 210-212 ran to the end
Sent(r) == [r EXCEPT !.sent = TRUE, !.cleared = TRUE, !.outcome = "sent"]

\* continue
Continue(r, why) == [r EXCEPT !.outcome = why]

\* an exception no except clause of run() catches
Uncaught(r, why) == [r EXCEPT !.raised = TRUE, !.outcome = why]

\* mutant: updatelist is cleared before the write, so also when the write fails
ClosedCleared(r, why) ==
    [r EXCEPT !.connected = FALSE, !.port = "closed", !.outcome = why, !.cleared = TRUE]

\* mutant: connected = False without closing the connection
ClosedNotClosed(r, why) == [r EXCEPT !.connected = FALSE, !.outcome = why]

\* the handlers of lines 138-141 and 214-217: close, connected = False
Closed(r, why) == [r EXCEPT !.connected = FALSE, !.port = "closed", !.outcome = why]

(***************************************************************************)
(* PyNBP.run, lines 113-141.  serial_for_url raises SerialException (line  *)
(* 117 catches it); in_waiting, read and write raise SerialException, of   *)
(* which line 138 catches the subclass SerialTimeoutException only.        *)
(***************************************************************************)
OpenResults == {"ok", "SerialException"}

SerialReadResults == {"ok", "SerialException"}

SerialWriteResults == {"ok", "SerialTimeoutException", "SerialException"}

SerialIteration(open, read, write) ==
    LET opened == ~connected /\ open = "ok"
        r == [Proceeding(connected \/ opened, IF opened THEN "open" ELSE serport)
                EXCEPT !.calls.connect = IF connected THEN "none" ELSE open]
    IN  IF ~r.connected /\ r.port = "None"
        THEN \* line 121: None has no attribute is_open (AttributeError)
             Uncaught(r, "open_crashed")
        ELSE IF ~r.connected /\ r.port # "open"
        THEN Continue(r, "noconn")
        ELSE IF read # "ok"
        THEN Uncaught(r, "read_failed")
        ELSE IF GateClosed(now)
        THEN Continue([r EXCEPT !.gate = "skipped"], "skipped")
        ELSE LET g == [r EXCEPT !.gate = "passed"]
             IN  IF ~ValidPtype(nbppayload.packettype)
                 THEN \* ValueError of line 61
                      Uncaught(g, "invalid_kind")
                 ELSE IF RaisesKeyError(Self, nbppayload.packettype)
                 THEN Uncaught(g, "key_error")
                 ELSE IF write = "ok"
                 THEN Sent(g)
                 ELSE IF write = "SerialTimeoutException"
                 THEN Closed(g, "write_failed")
                 ELSE Uncaught(g, "write_failed")

(***************************************************************************)
(* WifiPyNBP.run, lines 177-217.  Line 184 catches socket.timeout, line    *)
(* 198 BlockingIOError, line 214 Exception.  Received data is the sequence *)
(* of its characters.                                                      *)
(***************************************************************************)
AcceptResults == {"ok", "timeout", "OSError"}

Whitespace == {" ", "\n", "\r", "\t"}

RECURSIVE LStrip(_)
LStrip(text) ==
    IF text # <<>> /\ Head(text) \in Whitespace THEN LStrip(Tail(text)) ELSE text

RECURSIVE RStrip(_)
RStrip(text) ==
    IF text # <<>> /\ text[Len(text)] \in Whitespace
    THEN RStrip(SubSeq(text, 1, Len(text) - 1))
    ELSE text

\* str.strip()
Strip(text) == RStrip(LStrip(text))

RequestAll == <<"!", "A", "L", "L">>

RecvData ==
    { <<>>,
      <<"!", "A", "L", "L", "\n">>,
      <<" ", "!", "A", "L", "L", "\r", "\n">>,
      <<"!", "A", "L", "L", " ", "x">>,
      <<"A", "L", "L">> }

RecvResults ==
    { [exc |-> "BlockingIOError", data |-> <<>>], [exc |-> "OSError", data |-> <<>>] }
    \union { [exc |-> "none", data |-> d] : d \in RecvData }

ReplyResults == {"ok", "BlockingIOError", "OSError"}

SocketSendResults == {"ok", "OSError"}

\* mutant: the text is compared as received, without strip()
IsRequestExact(recv) == recv.exc = "none" /\ recv.data = RequestAll

\* if data: text = data.decode().strip(); if text == "!ALL"
IsRequest(recv) == recv.exc = "none" /\ recv.data # <<>> /\ Strip(recv.data) = RequestAll

\* mutant: the reply is taken for the emission and clears updatelist
RepliedCleared(r) ==
    [r EXCEPT !.replies = << Written("reply", "ALL") >>, !.cleared = TRUE]

\* conn.sendall(self._genpacket('ALL')) returned
Replied(r) == [r EXCEPT !.replies = << Written("reply", "ALL") >>]

SocketIteration(accept, recv, reply, send) ==
    LET accepted == ~connected /\ accept = "ok"
        a == [Proceeding(connected \/ accepted, IF accepted THEN "open" ELSE conn)
                EXCEPT !.calls.connect = IF connected THEN "none" ELSE accept]
        r == [a EXCEPT !.calls.recv = recv,
                       !.calls.reply = IF IsRequest(recv) THEN reply ELSE "none"]
    IN  IF ~connected /\ accept = "OSError"
        THEN Uncaught(a, "accept_failed")
        ELSE IF ~a.connected
        THEN Continue(a, "noconn")
        ELSE IF recv.exc = "OSError"
        THEN Uncaught([a EXCEPT !.calls.recv = recv], "read_failed")
        ELSE IF IsRequest(recv) /\ reply = "OSError"
        THEN Uncaught(r, "reply_failed")
        ELSE LET q == IF IsRequest(recv) /\ reply = "ok" THEN Replied(r) ELSE r
             IN  IF GateClosed(now)
                 THEN Continue([q EXCEPT !.gate = "skipped"], "skipped")
                 ELSE LET g == [q EXCEPT !.gate = "passed"]
                      IN  IF ~ValidPtype(nbppayload.packettype)
                          THEN \* ValueError of line 61, caught by line 214
                               Closed(g, "invalid_kind")
                          ELSE IF RaisesKeyError(Self, nbppayload.packettype)
                          THEN Closed(g, "key_error")
                          ELSE IF send = "ok"
                          THEN Sent(g)
                          ELSE Closed(g, "write_failed")

(***************************************************************************)
(* The iteration takes effect.  A successful write (lines 134-136 and      *)
(* 210-212) takes d ticks; time.time() of line 136 / 212 is read after it. *)
(***************************************************************************)
\* self.updatelist = []
ClearedUpdatelist == <<>>

Commit(r, run) ==
    /\ connected' = r.connected
    /\ IF transport = "serial"
       THEN serport' = r.port /\ UNCHANGED conn
       ELSE conn' = r.port /\ UNCHANGED serport
    /\ IF r.sent
       THEN \E d \in 0..MaxWriteTicks :
            /\ now + d <= run.horizon
            /\ written' = written \o r.replies
                                  \o << Written("gated", nbppayload.packettype) >>
            /\ now' = now + d
            /\ last_update_time' = now + d
            /\ lastWriteAt' = now + d
            /\ firstSince' = NoRank
            /\ attempts' = Observe(run.schedule, attempts, now, "sent", now + d)
            /\ owed' = owed \ LineNames(nbppayload.packettype)
            /\ UNCHANGED unsent
       ELSE /\ written' = written \o r.replies
            /\ unsent' = IF run.watch THEN nbppayload.packettype ELSE unsent
            /\ UNCHANGED owed
            /\ attempts' = IF r.gate = "none" THEN attempts
                           ELSE Observe(run.schedule, attempts, now,
                                        IF r.gate = "skipped" THEN "skipped" ELSE "failed",
                                        -1)
            /\ UNCHANGED <<now, last_update_time, lastWriteAt, firstSince>>
    /\ updatelist' = IF r.cleared THEN ClearedUpdatelist ELSE updatelist
    /\ pc' = IF r.raised THEN "dead" ELSE "done"
    /\ outcome' = r.outcome
    /\ calls' = IF run.watch THEN r.calls ELSE NoCalls
    /\ UNCHANGED <<transport, nbppayload, kpis, packettime, lastOcc, firstEver>>

SerialBody(run) ==
    /\ pc = "body"
    /\ transport = "serial"
    /\ \E open \in (IF connected THEN {"ok"} ELSE OpenResults),
          read \in SerialReadResults, write \in SerialWriteResults :
        Commit(SerialIteration(open, read, write), run)

SocketBody(run) ==
    /\ pc = "body"
    /\ transport = "socket"
    /\ \E accept \in (IF connected THEN {"ok"} ELSE AcceptResults), recv \in RecvResults :
        \E reply \in (IF IsRequest(recv) THEN ReplyResults ELSE {"ok"}),
           send \in SocketSendResults :
            Commit(SocketIteration(accept, recv, reply, send), run)

\* while True: back to queue.get()
Loop ==
    /\ pc = "done"
    /\ pc' = "get"
    /\ nbppayload' = NoPayload
    /\ outcome' = "idle"
    /\ written' = <<>>
    /\ calls' = NoCalls
    /\ unsent' = IF outcome = "sent" THEN "None" ELSE unsent
    /\ UNCHANGED <<transport, program, now, lastOcc, firstEver, firstSince, lastWriteAt,
                   attempts, owed>>

(***************************************************************************)
(* Spec: the producer sends every payload of at most MaxLen KPIs.          *)
(***************************************************************************)
FullRun == [horizon |-> MaxTime, lists |-> KpiLists, schedule |-> <<>>, watch |-> FALSE]

Next ==
    \/ Tick(FullRun)
    \/ Dequeue(FullRun)
    \/ SerialBody(FullRun)
    \/ SocketBody(FullRun)
    \/ Loop

Spec == Init /\ [][Next]_vars

(***************************************************************************)
(* SpecRate: the same program with a longer clock, a producer that sends   *)
(* payloads of at most one KPI, and the gate checks at t, t + 0.05 s and   *)
(* t + 0.25 s watched.                                                     *)
(***************************************************************************)
RateLists == { <<>>, << NbpKPI("RPM", "rpm", 45000) >>, << NbpKPI("AFR", "", 147) >> }

RateRun == [horizon |-> MaxTimeRate, lists |-> RateLists, schedule |-> Schedule,
            watch |-> FALSE]

NextRate ==
    \/ Tick(RateRun)
    \/ Dequeue(RateRun)
    \/ SerialBody(RateRun)
    \/ SocketBody(RateRun)
    \/ Loop

SpecRate == Init /\ [][NextRate]_vars

(***************************************************************************)
(* SpecIO: the producer of SpecRate, with the transport calls of each      *)
(* iteration, the names owed to the client and the kinds left unsent       *)
(* watched.                                                                *)
(***************************************************************************)
IORun == [horizon |-> MaxTimeIO, lists |-> RateLists, schedule |-> <<>>, watch |-> TRUE]

NextIO ==
    \/ Tick(IORun)
    \/ Dequeue(IORun)
    \/ SerialBody(IORun)
    \/ SocketBody(IORun)
    \/ Loop

SpecIO == Init /\ [][NextIO]_vars

(***************************************************************************)
(* Properties.                                                             *)
(***************************************************************************)
GatedWritten == \E i \in 1..Len(written) : written[i].path = "gated"

\* C1: after any sequence of dequeued payloads, on either broadcaster, kpis holds
\* exactly the names that occurred in some payload's KPI list, once each, and maps
\* each of them to the KPI of its last occurrence.
C1_LastWriteWins ==
    /\ DictKeys(kpis) = { n \in KpiNames : lastOcc[n] # NoKpi }
    /\ \A i, j \in 1..Len(kpis) : kpis[i].name = kpis[j].name => i = j
    /\ \A i \in 1..Len(kpis) : kpis[i] = lastOcc[kpis[i].name]

\* RPM entered the table before the last emission and was applied again after AFR
\* since then; the table holds its value 4500
C1_Witness ==
    /\ kpis = << NbpKPI("RPM", "rpm", 45000), NbpKPI("AFR", "", 147) >>
    /\ updatelist = <<"AFR", "RPM">>
    /\ pc = "body"

\* C2: in every reachable state updatelist holds each name at most once, and holds
\* the names applied since it was last cleared in the order of their first
\* application since then.
C2_PendingFirstSeenOrder ==
    /\ \A i, j \in 1..Len(updatelist) : updatelist[i] = updatelist[j] => i = j
    /\ updatelist = Ranked(firstSince)

\* after an emission, AFR then RPM were applied, RPM more than once: the pending
\* order is the reverse of the table order
C2_Witness ==
    /\ updatelist = <<"AFR", "RPM">>
    /\ kpis[1].name = "RPM"
    /\ last_update_time > 0
    /\ outcome = "skipped"

\* C3: updatelist is cleared by a successful rate-gated write and by nothing else:
\* a step of the loop after the payload is applied that puts no rate-gated packet
\* on the transport (disconnected, gate closed, write failed) leaves updatelist as
\* it was, and one that does leaves it empty.
C3_ClearedOnlyAfterEmission ==
    [][ pc # "get" =>
            IF pc = "body" /\ GatedWritten'
            THEN updatelist' = <<>>
            ELSE updatelist' = updatelist ]_vars

\* a write failed with two names pending, and both are still pending
C3_Witness ==
    /\ outcome = "write_failed"
    /\ Len(updatelist) = 2
    /\ ~GatedWritten

RECURSIVE Concat(_)
Concat(lines) == IF lines = <<>> THEN "" ELSE Head(lines) \o Concat(Tail(lines))

\* one line per name of names, in that order, each with the last KPI of its name
LinesOf(names) == Concat([i \in 1..Len(names) |-> KpiLine(lastOcc[names[i]])])

Framed(ptype, body) == Header(Self, ptype) \o body \o Footer

ExamplePayload ==
    << NbpKPI("RPM", "rpm", 45000), NbpKPI("RPM", "rpm", 46000), NbpKPI("AFR", "", 147) >>

ExamplePacket == "*NBP1,UPDATE,1.500000\n\"RPM\",\"rpm\":4600\n\"AFR\":14.7\n#\n\n"

\* C4: an UPDATE packet encoded while updatelist is not empty consists of the
\* header, one line per pending name in pending order, each with the latest KPI of
\* that name, and the footer, and so has no line for a KPI that is not pending;
\* this holds of the encoder in every reachable state and of every such packet
\* written.  The payload RPM=4500, RPM=4600, AFR=14.7 applied to a fresh tracker
\* gives the lines "RPM","rpm":4600 and "AFR":14.7.
C4_UpdateSelectsPending ==
    /\ updatelist # <<>> =>
            _genpacket(Self, "UPDATE") = Framed("UPDATE", LinesOf(updatelist))
    /\ \A i \in 1..Len(written) :
            written[i].ptype = "UPDATE" /\ written[i].pending # <<>> =>
                written[i].packet = Framed("UPDATE", LinesOf(written[i].pending))
    /\ ( /\ kpis = ApplyKpis(<<>>, ExamplePayload)
         /\ updatelist = ApplyUpdatelist(<<>>, ExamplePayload)
         /\ packettime = 1500 ) =>
            _genpacket(Self, "UPDATE") = ExamplePacket

\* the packet of the example has been written
C4_Witness ==
    /\ kpis = << NbpKPI("RPM", "rpm", 46000), NbpKPI("AFR", "", 147) >>
    /\ \E i \in 1..Len(written) :
            /\ written[i].path = "gated"
            /\ written[i].ptype = "UPDATE"
            /\ written[i].pending = <<"RPM", "AFR">>
            /\ written[i].packet = ExamplePacket

\* the lines of every KPI of the table, in table order
TableBody == Concat([i \in 1..Len(kpis) |-> KpiLine(kpis[i])])

\* C5: an UPDATE packet encoded while updatelist is empty and kpis is not has the
\* body of the ALL packet of the same state: a line for every KPI of the table.
C5_UpdateFallsBackToAll ==
    /\ (updatelist = <<>> /\ kpis # <<>>) =>
            /\ _genpacket(Self, "UPDATE") = Framed("UPDATE", TableBody)
            /\ _genpacket(Self, "ALL") = Framed("ALL", TableBody)
    /\ \A i \in 1..Len(written) :
            (written[i].ptype = "UPDATE" /\ written[i].pending = <<>> /\ kpis # <<>>) =>
                written[i].packet = Framed("UPDATE", TableBody)

\* an UPDATE packet was written for a payload that changed nothing since the last
\* emission, with two KPIs in the table
C5_Witness ==
    /\ Len(kpis) = 2
    /\ \E i \in 1..Len(written) :
            /\ written[i].path = "gated"
            /\ written[i].ptype = "UPDATE"
            /\ written[i].pending = <<>>

\* C6: in every reachable state the ALL packet, as encoded and as written, has
\* exactly one line for every name ever applied, in the order of first application,
\* whatever updatelist holds.
C6_AllHasEveryKpi ==
    /\ _genpacket(Self, "ALL") = Framed("ALL", LinesOf(Ranked(firstEver)))
    /\ \A i \in 1..Len(written) :
            written[i].ptype = "ALL" =>
                written[i].packet = Framed("ALL", LinesOf(Ranked(firstEver)))

\* an ALL packet was written while one of the two known names was pending
C6_Witness ==
    /\ Len(kpis) = 2
    /\ \E i \in 1..Len(written) :
            /\ written[i].ptype = "ALL"
            /\ Len(written[i].pending) = 1

\* C7: no step of either loop removes a name from kpis.
C7_TableNeverShrinks == [][DictKeys(kpis) \subseteq DictKeys(kpis')]_vars

\* both names are in the table after a failed write closed the connection
C7_Witness ==
    /\ DictKeys(kpis) = {"RPM", "AFR"}
    /\ outcome = "write_failed"
    /\ ~connected
    /\ pc = "done"

\* C8: the METADATA packet is "@NAME:<device_name>\n\n" and nothing else, whatever
\* kpis, updatelist and packettime hold, as encoded and as written.
C8_MetadataExact ==
    /\ _genpacket(Self, "METADATA") = "@NAME:PyNBP\n\n"
    /\ \A i \in 1..Len(written) :
            written[i].ptype = "METADATA" => written[i].packet = "@NAME:PyNBP\n\n"

\* a METADATA packet was written with KPIs known and pending
C8_Witness ==
    /\ Len(kpis) = 2
    /\ packettime = 2025
    /\ \E i \in 1..Len(written) :
            /\ written[i].ptype = "METADATA"
            /\ Len(written[i].pending) = 2

\* C9: a rate-gated write starts at least min_update_interval after the end of the
\* rate-gated write before it; an iteration whose gate check comes less than
\* min_update_interval after last_update_time writes nothing on that path; and of
\* three consecutive gate checks at t, t + 0.05 s and t + 0.25 s, the first with a
\* write recorded at t, the second writes nothing and the third passes the gate and
\* writes (unless its send raises).
C9_RateGate ==
    /\ [][ (pc = "body" /\ GatedWritten') =>
                (lastWriteAt = -1 \/ now - lastWriteAt >= MinUpdateInterval) ]_vars
    /\ [][ (pc = "body" /\ now - last_update_time < MinUpdateInterval) =>
                ~GatedWritten' ]_vars
    /\ [](Len(attempts) >= 2 =>
                attempts[1].res = "sent" /\ attempts[2].res = "skipped")
    /\ [](Len(attempts) = 3 => attempts[3].res \in {"sent", "failed"})

\* the three gate checks of the example were made and two packets written
C9_Witness ==
    /\ Len(attempts) = 3
    /\ attempts[2].at = attempts[1].at + 1
    /\ attempts[3].at = attempts[1].at + 5
    /\ attempts[1].res = "sent"
    /\ attempts[2].res = "skipped"
    /\ attempts[3].res = "sent"

Port == IF transport = "serial" THEN serport ELSE conn

\* C10: whenever the write of the rate-gated path has failed, the connection is
\* closed, the broadcaster is disconnected, and its loop is still running.
C10_WriteFailureDisconnects ==
    outcome = "write_failed" => (pc # "dead" /\ ~connected /\ Port = "closed")

\* C11: no failure of a transport call ends a broadcaster loop: after a failed open
\* or accept, a failed read, or a failed write or send (the send that answers "!ALL"
\* among them), the thread is still running and goes on to the next payload.
C11_TransportErrorsHandled ==
    outcome \in {"open_crashed", "accept_failed", "read_failed", "reply_failed",
                 "write_failed"}
        => pc # "dead"

\* C12: a packettype that is none of ALL, UPDATE, METADATA makes _genpacket raise
\* without producing bytes, and when such a payload reaches the encoder in either
\* loop the error leaves the loop: nothing is written, the connection is not closed
\* and the broadcaster is not set to disconnected.
C12_InvalidKindPropagates ==
    /\ (pc # "get" /\ GatedWritten) => ValidPtype(nbppayload.packettype)
    /\ outcome = "invalid_kind" =>
            /\ ~ValidPtype(nbppayload.packettype)
            /\ ~GatedWritten
            /\ pc = "dead"
            /\ connected
            /\ Port = "open"

\* the read of this iteration returned "!ALL" with whitespace around it
Requested == calls.recv.exc = "none" /\ Strip(calls.recv.data) = RequestAll

\* C13: in an iteration of the socket loop whose read returns "!ALL" after
\* trimming, the broadcaster sends an ALL packet in that iteration: sendall is
\* called whether the rate gate is closed or open, and the packet it puts on the
\* connection has a line for every KPI of the table.
C13_RequestAnsweredAtOnce ==
    Requested =>
        /\ calls.reply # "none"
        /\ calls.reply = "ok" =>
                \E i \in 1..Len(written) :
                    /\ written[i].path = "reply"
                    /\ written[i].packet = Framed("ALL", TableBody)

\* "!ALL" came with whitespace around it while the rate gate was closed, and the
\* ALL packet with both KPIs was sent
C13_Witness ==
    /\ calls.recv.data = <<" ", "!", "A", "L", "L", "\r", "\n">>
    /\ outcome = "skipped"
    /\ Len(kpis) = 2
    /\ Len(written) = 1
    /\ written[1].path = "reply"
    /\ written[1].packet = Framed("ALL", TableBody)

\* C14: the socket broadcaster serves one client at a time: an iteration calls
\* accept only while it is not connected, at most once (the one result of the one
\* call is recorded), and only when no accepted connection is still open; and the
\* loop never holds itself disconnected with an open connection.
C14_OneClientAtATime ==
    /\ [][ (pc = "body" /\ transport = "socket" /\ calls'.connect # "none") =>
                (~connected /\ conn # "open") ]_vars
    /\ [][ (pc = "body" /\ transport = "socket" /\ connected) =>
                (calls'.connect = "none" /\ conn' \in {"open", "closed"}) ]_vars
    /\ [](transport = "socket" => (conn = "open" <=> connected))

\* a client was accepted in an iteration that sent it the one pending KPI of the two
\* known: the other one was sent to an earlier client, whose connection was closed
\* in between
C14_Witness ==
    /\ transport = "socket"
    /\ calls.connect = "ok"
    /\ connected
    /\ conn = "open"
    /\ outcome = "sent"
    /\ Len(kpis) = 2
    /\ written[1].ptype = "UPDATE"
    /\ written[1].pending = <<"AFR">>

\* C15: an iteration of the serial loop that is disconnected and whose open fails,
\* the very first one included, leaves the broadcaster disconnected and running,
\* writes nothing, and keeps the payload it dequeued merged into kpis and
\* updatelist.
C15_OpenFailureKeepsWaiting ==
    (transport = "serial" /\ calls.connect = "SerialException") =>
        /\ pc = "done"
        /\ ~connected
        /\ written = <<>>
        /\ \A i \in 1..Len(kpis) : kpis[i] = lastOcc[kpis[i].name]
        /\ updatelist = Ranked(firstSince)

\* the header of a packet of kind ptype stamped ts (in ms)
HeaderAt(ptype, ts) == "*NBP1," \o ptype \o "," \o Format6f(ts) \o "\n"

\* the lines of a written packet: those of the names pending when it was encoded,
\* or of the whole table
BodyOf(w) ==
    IF w.ptype = "UPDATE" /\ w.pending # <<>> THEN LinesOf(w.pending) ELSE TableBody

\* C16: every ALL or UPDATE packet written, by the rate-gated path or in answer to
\* "!ALL", carries in its header the timestamp of the payload dequeued by the
\* iteration that writes it, whatever earlier payloads its KPIs came from.
C16_HeaderHasLatestTimestamp ==
    \A i \in 1..Len(written) :
        written[i].ptype \in {"ALL", "UPDATE"} =>
            written[i].packet =
                HeaderAt(written[i].ptype, nbppayload.timestamp)
                    \o BodyOf(written[i]) \o Footer

\* the iteration of a payload stamped 2.025 (of at most one KPI) wrote an "!ALL"
\* reply and an UPDATE packet with both KPIs: AFR came from an earlier payload,
\* whose iteration wrote no rate-gated packet
C16_Witness ==
    /\ nbppayload.timestamp = 2025
    /\ unsent # "None"
    /\ lastOcc["RPM"] # NoKpi /\ lastOcc["AFR"] # NoKpi
    /\ Len(written) = 2
    /\ written[1].path = "reply"
    /\ written[2].path = "gated"
    /\ written[2].ptype = "UPDATE"
    /\ written[2].pending = <<"AFR", "RPM">>
    /\ written[2].packet =
        "*NBP1,UPDATE,2.025000\n\"AFR\":14.7\n\"RPM\",\"rpm\":4500\n#\n\n"

\* C17: every name applied to the tracker has a line in the next ALL or UPDATE
\* packet the rate-gated path writes: once such a packet is written, no name
\* applied before it is still owed to the client.
C17_NoChangeDropped ==
    (outcome = "sent" /\ nbppayload.packettype \in {"ALL", "UPDATE"}) => owed = {}

\* C18: in every reachable state of either broadcaster every name of updatelist is
\* a key of kpis, so the lookup self.kpis[k] of an UPDATE packet never raises and no
\* iteration ends on a KeyError.
C18_PendingNamesAreKeys ==
    /\ \A i \in 1..Len(updatelist) : updatelist[i] \in DictKeys(kpis)
    /\ ~RaisesKeyError(Self, "UPDATE")
    /\ outcome # "key_error"

\* an UPDATE packet was encoded from two pending names, looked up in a table that
\* holds them in the other order
C18_Witness ==
    /\ outcome = "sent"
    /\ Len(kpis) = 2
    /\ kpis[1].name = "RPM"
    /\ Len(written) = 1
    /\ written[1].ptype = "UPDATE"
    /\ written[1].pending = <<"AFR", "RPM">>

ReplyWritten == \E i \in 1..Len(written) : written[i].path = "reply"

\* C19: the ALL packet sent in answer to "!ALL" changes nothing the rate-gated
\* path depends on.  An iteration that writes the reply and no rate-gated packet
\* leaves updatelist, kpis and last_update_time as they were; the gate of an
\* iteration that writes the reply is decided by last_update_time as it was before;
\* and when the gate is open (and the packettype valid) the rate-gated write is
\* made, from the names that were pending before the reply.
C19_ReplyLeavesStateAlone ==
    /\ [][ (pc = "body" /\ ReplyWritten' /\ ~GatedWritten') =>
                /\ updatelist' = updatelist
                /\ kpis' = kpis
                /\ last_update_time' = last_update_time ]_vars
    /\ [][ (pc = "body" /\ ReplyWritten') =>
                IF now - last_update_time < MinUpdateInterval
                THEN outcome' = "skipped"
                ELSE ValidPtype(nbppayload.packettype) =>
                        outcome' \in {"sent", "write_failed"} ]_vars
    /\ [][ (pc = "body" /\ ReplyWritten' /\ GatedWritten') =>
                /\ Len(written') = 2
                /\ written'[2].pending = updatelist
                /\ written'[2].packet = _genpacket(Self, nbppayload.packettype)
                /\ kpis' = kpis ]_vars

\* the reply was written with the gate closed and two names pending, and they are
\* still pending
C19_Witness ==
    /\ outcome = "skipped"
    /\ ReplyWritten
    /\ updatelist = <<"AFR", "RPM">>
    /\ written[1].pending = updatelist

\* the bytes of a packet of kind kind, encoded with the names of pending pending
BytesOfKind(kind, pending) ==
    IF kind = "METADATA" THEN "@NAME:PyNBP\n\n"
    ELSE HeaderAt(kind, nbppayload.timestamp)
            \o (IF kind = "UPDATE" /\ pending # <<>> THEN LinesOf(pending) ELSE TableBody)
            \o Footer

\* C20: an iteration writes at most one rate-gated packet, and its bytes are those
\* of the packettype of the payload that iteration dequeued, whatever the
\* packettype of the payloads whose iterations wrote nothing; an iteration that is
\* disconnected or rate-gated writes no such packet.
C20_KindIsThisPayloads ==
    /\ Cardinality({ i \in 1..Len(written) : written[i].path = "gated" }) <= 1
    /\ \A i \in 1..Len(written) :
            written[i].path = "gated" =>
                written[i].packet = BytesOfKind(nbppayload.packettype, written[i].pending)
    /\ outcome \in {"noconn", "skipped"} => ~GatedWritten

\* the payload before was an ALL payload and was not sent; this one is an UPDATE
\* payload, and the packet written is an UPDATE packet with the one pending KPI of
\* the two known
C20_Witness ==
    /\ unsent = "ALL"
    /\ outcome = "sent"
    /\ nbppayload.packettype = "UPDATE"
    /\ Len(kpis) = 2
    /\ written[Len(written)].packet = "*NBP1,UPDATE,2.025000\n\"AFR\":14.7\n#\n\n"

====
